---- MODULE Spec2Model ----
(***************************************************************************)
(* The untyped lambda calculus of src/src/untyped.rs: de Bruijn terms,     *)
(* shift, subst, subst_top, the call-by-value eval1 / eval, and the        *)
(* printer show with its naming context.                                    *)
(*                                                                          *)
(* A usize field (Var's index and context length, a cutoff) is held as the *)
(* integer its 64 bits read as an isize: 0 .. 2^63-1 are themselves and a  *)
(* negative m stands for the word 2^64 + m.  The casts `x as isize` and    *)
(* `.. as usize` are then the identity on the held integer, + is the       *)
(* wrapping + of the code, and only the unsigned comparison needs care     *)
(* (UGe).  All magnitudes of the model stay far below 2^63.                *)
(***************************************************************************)
EXTENDS Integers, Sequences, FiniteSets, TLC

VARIABLES term, pc, call, cur, steps, first

vars == <<term, pc, call, cur, steps, first>>

(* ------------------------------ bounds ---------------------------------- *)
MaxIdx == 2
MaxLen == 2
MaxShift == 2
MaxSteps == 4
MaxCtx == 2

(* ------------------------------ Term ------------------------------------ *)
Var(x, n) == [tag |-> "Var", x |-> x, n |-> n]
Abs(name, body) == [tag |-> "Abs", name |-> name, body |-> body]
App(t1, t2) == [tag |-> "App", t1 |-> t1, t2 |-> t2]

(* a >= b on two usize words, each held as its isize reading *)
UGe(a, b) == IF (a >= 0) = (b >= 0) THEN a >= b ELSE a < 0

(* ------------------------------ shift ----------------------------------- *)
RECURSIVE ShiftWalk(_, _, _)
(* the cutoff is not raised on entering an Abs *)
ShiftWalkSameCutoff(t, d, c) ==
  CASE t.tag = "Var" -> Var(IF UGe(t.x, c) THEN t.x + d ELSE t.x, t.n + d)
    [] t.tag = "Abs" -> Abs(t.name, ShiftWalk(t.body, d, c))
    [] t.tag = "App" -> App(ShiftWalk(t.t1, d, c), ShiftWalk(t.t2, d, c))

ShiftWalk(t, d, c) ==
  CASE t.tag = "Var" -> Var(IF UGe(t.x, c) THEN t.x + d ELSE t.x, t.n + d)
    [] t.tag = "Abs" -> Abs(t.name, ShiftWalk(t.body, d, c + 1))
    [] t.tag = "App" -> App(ShiftWalk(t.t1, d, c), ShiftWalk(t.t2, d, c))

(* the walk starts with cutoff 1 *)
ShiftFromOne(t, d) == ShiftWalk(t, d, 1)

Shift(t, d) == ShiftWalk(t, d, 0)

(* ------------------------------ subst ----------------------------------- *)
RECURSIVE SubstWalk(_, _, _, _)
(* the replacement is put in as it is, not shifted by the cutoff *)
SubstWalkUnshifted(t, j, c, ts) ==
  CASE t.tag = "Var" -> IF t.x = j + c THEN ts ELSE t
    [] t.tag = "Abs" -> Abs(t.name, SubstWalk(t.body, j, c + 1, ts))
    [] t.tag = "App" -> App(SubstWalk(t.t1, j, c, ts), SubstWalk(t.t2, j, c, ts))

SubstWalk(t, j, c, ts) ==
  CASE t.tag = "Var" -> IF t.x = j + c THEN Shift(ts, c) ELSE t
    [] t.tag = "Abs" -> Abs(t.name, SubstWalk(t.body, j, c + 1, ts))
    [] t.tag = "App" -> App(SubstWalk(t.t1, j, c, ts), SubstWalk(t.t2, j, c, ts))

Subst(t, j, ts) == SubstWalk(t, j, 0, ts)

(* the result is not shifted down after the substitution *)
SubstTopNoShiftDown(t, s) == Subst(t, 0, Shift(s, 1))

(* the argument is not shifted up before it is substituted *)
SubstTopNoShiftUp(t, s) == Shift(Subst(t, 0, s), -1)

SubstTop(t, s) == Shift(Subst(t, 0, Shift(s, 1)), -1)

(* ------------------------------ eval1 ----------------------------------- *)
IsVal(t) == t.tag = "Abs"

Ok(t) == [ok |-> TRUE, term |-> t]
(* Err carries the term named in the message "No rule applies: {:?}" *)
Err(t) == [ok |-> FALSE, term |-> t]

RECURSIVE Eval1(_)
(* an application whose function cannot step has its argument stepped *)
Eval1TriesArgument(t) ==
  IF t.tag = "App"
  THEN IF t.t1.tag = "Abs" /\ IsVal(t.t2)
       THEN Ok(SubstTop(t.t1.body, t.t2))
       ELSE IF IsVal(t.t1)
            THEN LET r == Eval1(t.t2)
                 IN IF r.ok THEN Ok(App(t.t1, r.term)) ELSE r
            ELSE LET r == Eval1(t.t1)
                     q == Eval1(t.t2)
                 IN IF r.ok THEN Ok(App(r.term, t.t2))
                    ELSE IF q.ok THEN Ok(App(t.t1, q.term)) ELSE r
  ELSE Err(t)

(* the beta rule fires whatever the argument is (call by name) *)
Eval1ByName(t) ==
  IF t.tag = "App"
  THEN IF t.t1.tag = "Abs"
       THEN Ok(SubstTop(t.t1.body, t.t2))
       ELSE LET r == Eval1(t.t1)
            IN IF r.ok THEN Ok(App(r.term, t.t2)) ELSE r
  ELSE Err(t)

Eval1(t) ==
  IF t.tag = "App"
  THEN IF t.t1.tag = "Abs" /\ IsVal(t.t2)
       THEN Ok(SubstTop(t.t1.body, t.t2))
       ELSE IF IsVal(t.t1)
            THEN LET r == Eval1(t.t2)
                 IN IF r.ok THEN Ok(App(t.t1, r.term)) ELSE r
            ELSE LET r == Eval1(t.t1)
                 IN IF r.ok THEN Ok(App(r.term, t.t2)) ELSE r
  ELSE Err(t)

(* ------------------------------ Context --------------------------------- *)
(* Context(Vec<(String, Binding)>): Binding is the unit NameBind, so a      *)
(* context is the sequence of its names, oldest first.                      *)
ContextNew(names) == names

CtxLen(ctx) == Len(ctx)

Shown(str) == [kind |-> "ok", str |-> str]
Panic(why) == [kind |-> why, str |-> ""]

(* the names are read oldest first: index 0 is the first name pushed *)
IndexToNameForward(ctx, n) ==
  IF n >= 0 /\ n <= Len(ctx) - 1 THEN [kind |-> "ok", str |-> ctx[n + 1]]
  ELSE [kind |-> "index out of range", str |-> ""]

(* &self.0[self.len() - 1 - n].0 : the subtraction overflows (n >= len, a    *)
(* panic in a debug build) or wraps to an index past the end (a panic in a  *)
(* release build); either way the call aborts.                              *)
IndexToName(ctx, n) ==
  IF n >= 0 /\ n <= CtxLen(ctx) - 1
  THEN Shown(ctx[(CtxLen(ctx) - 1 - n) + 1])
  ELSE Panic("index out of range")

RECURSIVE PickFreshName(_, _)
(* one ' is appended on a collision and the result is not looked up again *)
PickFreshNameOnce(ctx, name) ==
  IF \E i \in 1..Len(ctx) : name = ctx[i]
  THEN [ctx |-> Append(ctx, name \o "'"), name |-> name \o "'"]
  ELSE [ctx |-> Append(ctx, name), name |-> name]

PickFreshName(ctx, name) ==
  IF \E i \in 1..Len(ctx) : name = ctx[i]
  THEN PickFreshName(ctx, name \o "'")
  ELSE [ctx |-> Append(ctx, name), name |-> name]

(* ------------------------------ show ------------------------------------ *)
Lambda == "λ"

RECURSIVE Show(_, _)
Show(t, ctx) ==
  CASE t.tag = "Var" ->
         IF CtxLen(ctx) = t.n THEN IndexToName(ctx, t.x) ELSE Panic("bad index")
    [] t.tag = "Abs" ->
         LET p == PickFreshName(ctx, t.name)
             b == Show(t.body, p.ctx)
         IN IF b.kind = "ok"
            THEN Shown("(" \o Lambda \o p.name \o ". " \o b.str \o ")")
            ELSE b
    [] t.tag = "App" ->
         LET a == Show(t.t1, ctx)
             b == Show(t.t2, ctx)
         IN IF a.kind # "ok" THEN a
            ELSE IF b.kind # "ok" THEN b
            ELSE Shown("(" \o a.str \o " " \o b.str \o ")")

(* the calls of show made while it renders a term: for each, the place p of  *)
(* its subterm ("b" the body of an Abs, "l" and "r" the sides of an App),   *)
(* the context it is given and what it returns.  An App shows its right     *)
(* side only once its left side has returned.                               *)
RECURSIVE ShowCalls(_, _, _)
ShowCalls(t, ctx, p) ==
  {[p |-> p, ctx |-> ctx, res |-> Show(t, ctx)]} \cup
  CASE t.tag = "Var" -> {}
    [] t.tag = "Abs" ->
         ShowCalls(t.body, PickFreshName(ctx, t.name).ctx, Append(p, "b"))
    [] t.tag = "App" ->
         ShowCalls(t.t1, ctx, Append(p, "l")) \cup
         (IF Show(t.t1, ctx).kind = "ok"
          THEN ShowCalls(t.t2, ctx, Append(p, "r")) ELSE {})

(* ------------------------------ inputs ---------------------------------- *)
Names == {"x", "y"}
Vars == {Var(x, n) : x \in 0..MaxIdx, n \in 0..MaxLen}

(* small terms over Vars, well-formed or not *)
Small1 == Vars \cup {Abs(nm, v) : nm \in Names, v \in Vars}
               \cup {App(v, w) : v \in Vars, w \in Vars}
Small2 == {Abs("x", t) : t \in Small1 \ Vars}

(* the terms of height <= h that are well-formed with m binders in scope *)
NameAt(m) == IF m % 2 = 0 THEN "x" ELSE "y"

RECURSIVE WFTerms(_, _)
WFTerms(m, h) ==
  {Var(x, m) : x \in 0..(m - 1)} \cup
  (IF h = 0 THEN {}
   ELSE {Abs(NameAt(m), b) : b \in WFTerms(m + 1, h - 1)} \cup
        {App(a, b) : a \in WFTerms(m, h - 1), b \in WFTerms(m, h - 1)})

(* the terms of the tests of src/src/untyped.rs *)
ShiftTest1 == Abs("a", Abs("b", App(Var(1, 100), App(Var(0, 100), Var(2, 100)))))
ShiftTest2 ==
  Abs("a", App(App(Var(0, 100), Var(1, 100)),
               Abs("b", App(App(Var(0, 100), Var(1, 100)), Var(2, 100)))))
SubstTest1 == App(Var(0, 100), Abs("x", Abs("y", Var(2, 100))))
SubstTest2 == App(Var(0, 100), Abs("x", Var(1, 100)))
SubstArg1 == Var(1, 100)
SubstArg2 == App(Var(1, 100), Abs("z", Var(2, 100)))
EvalTest1 == App(Abs("x", Var(0, 2)), Abs("y", Var(0, 1)))
EvalTest2 ==
  App(App(Abs("f", Abs("x", App(Var(1, 2), Var(0, 2)))),
          Abs("z", Abs("w", Var(1, 2)))),
      Abs("u", Var(0, 1)))
ShowTests == {Var(0, 1), Abs("y", Var(1, 2)), Abs("x", Var(0, 2)), Abs("y", Var(0, 2)),
              App(Abs("y", Var(1, 2)), Abs("z", Var(0, 2)))}
TestTerms == {ShiftTest1, ShiftTest2, SubstTest1, SubstTest2, EvalTest1, EvalTest2}
               \cup ShowTests

InputTerms == Small1 \cup Small2 \cup WFTerms(0, 3) \cup WFTerms(1, 3) \cup WFTerms(2, 2)
                \cup TestTerms

Shifts == (0 - MaxShift)..MaxShift

Replacements == {Var(0, 1), Var(1, 2), Abs("z", Var(0, 2)), Abs("z", Var(1, 2)),
                 Abs("x", Abs("y", App(Var(0, 2), Var(2, 3)))), SubstArg1, SubstArg2}

CtxNames == {"x", "y", "x'"}
RECURSIVE SeqsUpTo(_, _)
SeqsUpTo(S, n) ==
  IF n = 0 THEN {<<>>}
  ELSE SeqsUpTo(S, n - 1) \cup {Append(q, e) : q \in SeqsUpTo(S, n - 1), e \in S}
Contexts == {ContextNew(q) : q \in SeqsUpTo(CtxNames, MaxCtx)}

(* ------------------------- places in a term ----------------------------- *)
(* a place is the path from the root: "b" into the body of an Abs, "l" and  *)
(* "r" into the function and the argument of an App                         *)
RECURSIVE Places(_)
Places(t) ==
  {<<>>} \cup
  CASE t.tag = "Var" -> {}
    [] t.tag = "Abs" -> {<<"b">> \o p : p \in Places(t.body)}
    [] t.tag = "App" -> {<<"l">> \o p : p \in Places(t.t1)} \cup
                        {<<"r">> \o p : p \in Places(t.t2)}

RECURSIVE At(_, _)
At(t, p) ==
  IF p = <<>> THEN t
  ELSE IF Head(p) = "b" THEN At(t.body, Tail(p))
  ELSE IF Head(p) = "l" THEN At(t.t1, Tail(p))
  ELSE At(t.t2, Tail(p))

(* the number of Abs nodes enclosing the place p *)
Binders(p) == Cardinality({i \in 1..Len(p) : p[i] = "b"})

VarPlaces(t) == {p \in Places(t) : At(t, p).tag = "Var"}

IsPrefix(p, q) == Len(p) <= Len(q) /\ SubSeq(q, 1, Len(p)) = p

(* the usize word held as w is the (small) number m: a word held as a       *)
(* negative integer is 2^64 + w, which no number of the model equals        *)
ValIs(w, m) == w >= 0 /\ w = m

(* no index and no contextLength of t is a wrapped (negative) sum *)
NonNegative(t) == \A p \in VarPlaces(t) : At(t, p).x >= 0 /\ At(t, p).n >= 0

(* ------------------------------ machine --------------------------------- *)
NoCall == [op |-> "none"]

Init ==
  /\ term \in InputTerms
  /\ pc = "ready"
  /\ call = NoCall
  /\ cur = term
  /\ steps = 0
  /\ first = term

(* term.shift(d) *)
CallShift ==
  /\ pc = "ready"
  /\ \E d \in Shifts :
       call' = [op |-> "shift", d |-> d, out |-> Shift(term, d)]
  /\ pc' = "shift"
  /\ UNCHANGED <<term, cur, steps, first>>

(* term.shift(d1).shift(d2) *)
CallShiftAgain ==
  /\ pc = "shift"
  /\ \E d \in Shifts :
       call' = [op |-> "shift2", d1 |-> call.d, mid |-> call.out, d2 |-> d,
                out |-> Shift(call.out, d)]
  /\ pc' = "shift2"
  /\ UNCHANGED <<term, cur, steps, first>>

(* term.subst(j, &s) *)
CallSubst ==
  /\ pc = "ready"
  /\ \E j \in 0..MaxIdx, s \in Replacements :
       call' = [op |-> "subst", j |-> j, s |-> s, out |-> Subst(term, j, s)]
  /\ pc' = "subst"
  /\ UNCHANGED <<term, cur, steps, first>>

(* term.subst_top(&s) *)
CallSubstTop ==
  /\ pc = "ready"
  /\ \E s \in Replacements :
       call' = [op |-> "subst_top", s |-> s, out |-> SubstTop(term, s)]
  /\ pc' = "subst_top"
  /\ UNCHANGED <<term, cur, steps, first>>

(* term.eval1() *)
CallEval1 ==
  /\ pc = "ready"
  /\ call' = [op |-> "eval1", res |-> Eval1(term)]
  /\ pc' = "eval1"
  /\ UNCHANGED <<term, cur, steps, first>>

(* the Ok arm returns the stepped term instead of evaluating it further *)
EvalStepOnce ==
  /\ pc \in {"ready", "eval", "again"}
  /\ steps < MaxSteps
  /\ Eval1(cur).ok
  /\ cur' = Eval1(cur).term
  /\ steps' = steps + 1
  /\ call' = [op |-> "eval", out |-> cur', run |-> IF pc = "again" THEN 2 ELSE 1]
  /\ pc' = IF pc = "again" THEN "returned2" ELSE "returned"
  /\ UNCHANGED <<term, first>>

(* term.eval(): the Ok arm, eval goes on with the stepped term *)
EvalStep ==
  /\ pc \in {"ready", "eval", "again"}
  /\ steps < MaxSteps
  /\ Eval1(cur).ok
  /\ cur' = Eval1(cur).term
  /\ steps' = steps + 1
  /\ pc' = IF pc = "ready" THEN "eval" ELSE pc
  /\ UNCHANGED <<term, call, first>>

(* term.eval(): the Err arm, eval returns the term it holds *)
EvalReturn ==
  /\ pc \in {"ready", "eval", "again"}
  /\ ~Eval1(cur).ok
  /\ call' = [op |-> "eval", out |-> cur, run |-> IF pc = "again" THEN 2 ELSE 1]
  /\ pc' = IF pc = "again" THEN "returned2" ELSE "returned"
  /\ UNCHANGED <<term, cur, steps, first>>

(* the caller evaluates the returned term once more (benches/untyped.rs) *)
EvalAgain ==
  /\ pc = "returned"
  /\ first' = call.out
  /\ cur' = call.out
  /\ steps' = 0
  /\ pc' = "again"
  /\ UNCHANGED <<term, call>>

(* cur.show(&ctx): the input term, or a term eval has reached or returned *)
CallShow ==
  /\ pc \in {"ready", "eval", "returned"}
  /\ \E ctx \in Contexts :
       call' = [op |-> "show", t |-> cur, ctx |-> ctx, res |-> Show(cur, ctx),
                calls |-> ShowCalls(cur, ctx, <<>>)]
  /\ pc' = "show"
  /\ UNCHANGED <<term, cur, steps, first>>

Next ==
  \/ CallShift
  \/ CallShiftAgain
  \/ CallSubst
  \/ CallSubstTop
  \/ CallEval1
  \/ EvalStep
  \/ EvalReturn
  \/ EvalAgain
  \/ CallShow

Spec == Init /\ [][Next]_vars

(* ============================== claims ================================== *)

(* C1: eval1 applies exactly one rule, chosen in this order: (1) on          *)
(* App(Abs(_, body), t2) with t2 an Abs the result is subst_top(body, t2);  *)
(* (2) else on App(t1, t2) with t1 an Abs the result is App(t1, t2') with   *)
(* t2' = eval1(t2), and "no rule applies" if eval1(t2) signals it; (3) else *)
(* on App(t1, t2) the result is App(t1', t2) with t1' = eval1(t1), t2 left  *)
(* as it is, and "no rule applies" if eval1(t1) signals it; (4) on every    *)
(* Var and every Abs it signals "no rule applies".                          *)
C1_Eval1Rules ==
  pc = "eval1" =>
    LET t == term
        r == call.res
    IN /\ (t.tag = "App" /\ t.t1.tag = "Abs" /\ t.t2.tag = "Abs")
            => r = Ok(SubstTop(t.t1.body, t.t2))
       /\ (t.tag = "App" /\ t.t1.tag = "Abs" /\ t.t2.tag # "Abs")
            => IF Eval1(t.t2).ok
               THEN r = Ok(App(t.t1, Eval1(t.t2).term))
               ELSE ~r.ok
       /\ (t.tag = "App" /\ t.t1.tag # "Abs")
            => IF Eval1(t.t1).ok
               THEN r = Ok(App(Eval1(t.t1).term, t.t2))
               ELSE ~r.ok
       /\ t.tag \in {"Var", "Abs"} => ~r.ok

(* eval1 has stepped the argument of an application whose function is an Abs *)
C1_Witness ==
  /\ pc = "eval1"
  /\ term.tag = "App" /\ term.t1.tag = "Abs" /\ term.t2.tag = "App"
  /\ call.res.ok
  /\ call.res.term.t2 # term.t2

(* C2: subst_top(body, s) is shift(subst(body, 0, shift(s, 1)), -1), the    *)
(* three steps in that order; with it eval of                                *)
(* App(Abs(x, Var(0,2)), Abs(y, Var(0,1))) is Abs(y, Var(0,1)) and eval of  *)
(* ((\f. \x. f x) (\z. \w. z)) (\u. u) is Abs(w, Abs(u, Var(0,2))).         *)
C2_SubstTopAndTests ==
  /\ pc = "subst_top" =>
       LET up == ShiftWalk(call.s, 1, 0)
           put == SubstWalk(term, 0, 0, up)
       IN call.out = ShiftWalk(put, -1, 0)
  /\ (pc = "returned" /\ term = EvalTest1) => call.out = Abs("y", Var(0, 1))
  /\ (pc = "returned" /\ term = EvalTest2)
       => call.out = Abs("w", Abs("u", Var(0, 2)))

(* eval has returned from the second test term, after its three steps *)
C2_Witness == pc = "returned" /\ term = EvalTest2 /\ steps = 3

(* what C3 says of one shift: r has the shape and the Abs names of t, and   *)
(* the Var(x, n) at a place under c Abs nodes is Var(x + d, n + d) when     *)
(* x >= c and Var(x, n + d) when x < c                                      *)
ShiftedAsClaimed(t, d, r) ==
  /\ Places(r) = Places(t)
  /\ \A p \in Places(t) :
       LET a == At(t, p)
           b == At(r, p)
           c == Binders(p)
       IN /\ b.tag = a.tag
          /\ (a.tag = "Abs" => b.name = a.name)
          /\ (a.tag = "Var" =>
                /\ ValIs(b.x, IF a.x >= c THEN a.x + d ELSE a.x)
                /\ ValIs(b.n, a.n + d))

(* C3 as stated: for every term and every integer d the fields of the       *)
(* result are the numbers x + d and n + d                                   *)
C3_Original ==
  pc = "shift" => ShiftedAsClaimed(term, call.d, call.out)

(* every sum the shift forms is >= 0 *)
SumsNonNegative(t, d) ==
  \A p \in VarPlaces(t) :
    /\ At(t, p).n + d >= 0
    /\ (At(t, p).x >= Binders(p) => At(t, p).x + d >= 0)

(* C3 amended: when every sum x + d (of a Var with x >= c) and n + d is     *)
(* >= 0, shift(t, d) has the shape and the names of t and its Vars are as   *)
(* C3 says; shifting \.\. 1 (0 2) by 2 gives \.\. 1 (0 4), every            *)
(* contextLength raised by 2.                                               *)
C3_ShiftAmended ==
  /\ (pc = "shift" /\ SumsNonNegative(term, call.d))
       => ShiftedAsClaimed(term, call.d, call.out)
  /\ (pc = "shift" /\ term = ShiftTest1 /\ call.d = 2)
       => call.out = Abs("a", Abs("b", App(Var(1, 102),
                                          App(Var(0, 102), Var(4, 102)))))

(* a shift by a negative d has met, under one binder, a bound and a free Var *)
C3_Witness ==
  /\ pc = "shift" /\ call.d < 0 /\ SumsNonNegative(term, call.d)
  /\ \E p \in VarPlaces(term) : Binders(p) = 1 /\ At(term, p).x >= 1
  /\ \E p \in VarPlaces(term) : Binders(p) = 1 /\ At(term, p).x < 1

(* C4: subst(t, j, s) has the shape of t except that each Var(x, _) under c *)
(* Abs nodes with x = j + c is replaced by shift(s, c); every other Var is  *)
(* returned unchanged and every Abs keeps its name; [0 -> 1](0 \.\. 2)      *)
(* gives 1 (\.\. 3), the inner occurrence with contextLength raised by 2.   *)
Replaced(t, j) == {p \in VarPlaces(t) : At(t, p).x = j + Binders(p)}

C4_Subst ==
  /\ pc = "subst" =>
       LET t == term
           r == call.out
       IN /\ \A p \in Places(t) :
               /\ p \in Places(r)
               /\ IF p \in Replaced(t, call.j)
                  THEN At(r, p) = ShiftWalk(call.s, Binders(p), 0)
                  ELSE /\ At(r, p).tag = At(t, p).tag
                       /\ (At(t, p).tag = "Var" => At(r, p) = At(t, p))
                       /\ (At(t, p).tag = "Abs" => At(r, p).name = At(t, p).name)
          /\ \A q \in Places(r) :
               q \in Places(t) \/ \E p \in Replaced(t, call.j) : IsPrefix(p, q)
  /\ (pc = "subst" /\ term = SubstTest1 /\ call.j = 0 /\ call.s = SubstArg1)
       => call.out = App(Var(1, 100), Abs("x", Abs("y", Var(3, 102))))

(* a subst has replaced a Var under a binder and kept another Var *)
C4_Witness ==
  /\ pc = "subst"
  /\ \E p \in Replaced(term, call.j) : Binders(p) >= 1
  /\ \E p \in VarPlaces(term) : p \notin Replaced(term, call.j)
  /\ call.s.tag = "Abs"

(* C5 as stated: shift(shift(t, d1), d2) = shift(t, d1 + d2) whenever no    *)
(* index and no contextLength becomes negative in any of the three shifts   *)
C5_Original ==
  (/\ pc = "shift2"
   /\ NonNegative(call.mid) /\ NonNegative(call.out)
   /\ NonNegative(Shift(term, call.d1 + call.d2)))
    => call.out = Shift(term, call.d1 + call.d2)

(* the first shift keeps every free Var free: x >= c gives x + d >= c *)
StaysFree(t, d) ==
  \A p \in VarPlaces(t) :
    At(t, p).x >= Binders(p) => At(t, p).x + d >= Binders(p)

(* C5 amended: shift(shift(t, d1), d2) = shift(t, d1 + d2) whenever no      *)
(* index and no contextLength becomes negative in any of the three shifts   *)
(* and the first shift leaves every free Var free (x >= c gives             *)
(* x + d1 >= c), as every d1 >= 0 does.                                     *)
C5_ShiftComposeAmended ==
  (/\ pc = "shift2"
   /\ NonNegative(call.mid) /\ NonNegative(call.out)
   /\ NonNegative(Shift(term, call.d1 + call.d2))
   /\ StaysFree(term, call.d1))
    => call.out = Shift(term, call.d1 + call.d2)


(* C6: eval is idempotent on its own output: when eval(t) returns,          *)
(* eval(eval(t)) = eval(t), indices, contextLengths and names alike,        *)
(* because eval1 signals "no rule applies" on the term eval returns: the    *)
(* second eval takes no step.                                               *)
C6_EvalIdempotent ==
  /\ pc = "returned2" => call.out = first /\ steps = 0
  /\ pc \in {"returned", "returned2"} => ~Eval1(call.out).ok

(* eval has returned a second time, on the result of a first eval that took *)
(* two steps or more                                                        *)
C6_Witness ==
  /\ pc = "returned2"
  /\ first # term
  /\ Eval1(term).ok /\ Eval1(term).term # first

(* a Var, an Abs, or an application whose function is a Var *)
HeadStuck(t) ==
  \/ t.tag \in {"Var", "Abs"}
  \/ t.tag = "App" /\ t.t1.tag = "Var"

(* C7: on every Var, every Abs and every App(Var(_, _), t2), whatever t2    *)
(* is, eval takes no step and returns its input unchanged; eval never       *)
(* signals a failure: it returns a term.                                    *)
C7_EvalReturnsStuckInput ==
  HeadStuck(term) =>
    /\ steps = 0
    /\ cur = term
    /\ (pc = "ready" => ENABLED EvalReturn)
    /\ (pc \in {"returned", "returned2"} =>
          call.out = term /\ call.out.tag \in {"Var", "Abs", "App"})

(* eval has returned an application of a free variable to a redex *)
C7_Witness ==
  /\ pc = "returned"
  /\ term.tag = "App" /\ term.t1.tag = "Var"
  /\ term.t2.tag = "App" /\ term.t2.t1.tag = "Abs" /\ term.t2.t2.tag = "Abs"

(* the call show made at the place p *)
CallAt(p) == CHOOSE c \in call.calls : c.p = p

(* every Var of t fits a context of length L: n = L + k and x < n *)
WellFormed(t, L) ==
  \A p \in VarPlaces(t) :
    /\ At(t, p).n = L + Binders(p)
    /\ At(t, p).x >= 0 /\ At(t, p).x < At(t, p).n

(* C8: show(term, ctx) with ctx of length L aborts whenever it reaches a    *)
(* Var(x, n) under k Abs nodes with n # L + k; when every Var has           *)
(* n = L + k and x < n, show returns a string and prints each Var as the    *)
(* name at position L + k - 1 - x (counted from 0) of the extended context. *)
C8_ShowAbortsOrNames ==
  pc = "show" =>
    LET t == call.t
        L == Len(call.ctx)
    IN /\ \A c \in call.calls : Len(c.ctx) = L + Binders(c.p)
       /\ \A c \in call.calls :
            (At(t, c.p).tag = "Var" /\ At(t, c.p).n # L + Binders(c.p))
              => c.res.kind # "ok" /\ call.res.kind # "ok"
       /\ WellFormed(t, L) =>
            /\ call.res.kind = "ok"
            /\ \A p \in VarPlaces(t) :
                 /\ \E c \in call.calls : c.p = p
                 /\ CallAt(p).res =
                      [kind |-> "ok",
                       str |-> CallAt(p).ctx[(L + Binders(p) - 1 - At(t, p).x) + 1]]

(* show has printed a term with a bound and a free Var under a binder *)
C8_Witness ==
  /\ pc = "show" /\ call.res.kind = "ok" /\ Len(call.ctx) = 2
  /\ \E p \in VarPlaces(call.t) : Binders(p) = 1 /\ At(call.t, p).x = 0
  /\ \E p \in VarPlaces(call.t) : Binders(p) = 1 /\ At(call.t, p).x = 2

(* name followed by k ' characters *)
RECURSIVE Primes(_, _)
Primes(name, k) == IF k = 0 THEN name ELSE Primes(name, k - 1) \o "'"

NamesOf(ctx) == {ctx[i] : i \in 1..Len(ctx)}

(* name with the least number of ' that makes it differ from every name of ctx *)
LeastFresh(ctx, name) ==
  LET k == CHOOSE k \in 0..Len(ctx) :
             /\ Primes(name, k) \notin NamesOf(ctx)
             /\ \A i \in 0..(k - 1) : Primes(name, i) \in NamesOf(ctx)
  IN Primes(name, k)

Distinct(ctx) == Cardinality(NamesOf(ctx)) = Len(ctx)

(* C9: on Abs(name, body) under ctx, show displays the binder as name with  *)
(* the least number k >= 0 of ' that makes it differ from every name of     *)
(* ctx, and shows body under ctx with exactly that name appended; App shows *)
(* both subterms under its own ctx; so from a context of pairwise distinct  *)
(* names every context reached has pairwise distinct names; and             *)
(* Abs(x, Var(0,2)) under [x] prints (\x'. x').                             *)
C9_FreshNames ==
  pc = "show" =>
    /\ \A c \in call.calls :
         LET a == At(call.t, c.p)
         IN /\ a.tag = "Abs" =>
                 LET fresh == LeastFresh(c.ctx, a.name)
                     b == CallAt(Append(c.p, "b"))
                 IN /\ \E d \in call.calls : d.p = Append(c.p, "b")
                    /\ b.ctx = Append(c.ctx, fresh)
                    /\ (c.res.kind = "ok" =>
                          c.res.str = "(" \o Lambda \o fresh \o ". " \o b.res.str \o ")")
            /\ a.tag = "App" =>
                 \A d \in call.calls :
                   d.p \in {Append(c.p, "l"), Append(c.p, "r")} => d.ctx = c.ctx
    /\ Distinct(call.ctx) => \A c \in call.calls : Distinct(c.ctx)
    /\ (call.t = Abs("x", Var(0, 2)) /\ call.ctx = <<"x">>)
         => call.res = [kind |-> "ok", str |-> "(" \o Lambda \o "x'. x')"]

(* show has entered an Abs whose name needed two ' to be fresh *)
C9_Witness ==
  /\ pc = "show" /\ call.res.kind = "ok"
  /\ \E c \in call.calls :
       /\ At(call.t, c.p).tag = "Abs"
       /\ Primes(At(call.t, c.p).name, 2) = LeastFresh(c.ctx, At(call.t, c.p).name)

(* C10: if term is well-formed under a context of length L (every           *)
(* Var(x, n) under k Abs nodes has n = L + k and x < n), every term eval    *)
(* reaches from it by eval1 steps, and the term eval returns, is            *)
(* well-formed under L, no index or contextLength wrapped below zero, and   *)
(* show of it under a context of length L does not abort.                   *)
C10_EvalKeepsWellFormed ==
  \A L \in 0..MaxCtx :
    WellFormed(term, L) =>
      /\ WellFormed(cur, L) /\ NonNegative(cur)
      /\ (pc \in {"returned", "returned2"} => WellFormed(call.out, L))
      /\ (pc = "show" /\ Len(call.ctx) = L) => call.res.kind = "ok"

(* show has printed, under a context of length 1, a term reached by two     *)
(* steps from a term well-formed under it                                   *)
C10_Witness ==
  /\ pc = "show" /\ Len(call.ctx) = 1 /\ WellFormed(term, 1)
  /\ steps >= 2 /\ call.t = cur /\ cur # term
  /\ call.res.kind = "ok"

(* two shifts, the first one downwards, of a term with a free Var under a binder *)
C5_Witness ==
  /\ pc = "shift2" /\ call.d1 < 0 /\ call.d2 > 0
  /\ NonNegative(call.mid) /\ NonNegative(call.out)
  /\ StaysFree(term, call.d1)
  /\ \E p \in VarPlaces(term) : Binders(p) >= 1 /\ At(term, p).x >= Binders(p)
====
